---- MODULE Spec2Model ----
(***************************************************************************)
(* Model of the terrain generator of map_generator/terrain.py and of the   *)
(* way main.py drives it: generate_comprehensive_map, then point queries   *)
(* (get_terrain_info) and the export (save_detailed_map).                  *)
(*                                                                         *)
(* Units.  All quantities are integers:                                    *)
(*   noise samples (pnoise2)          thousandths, -1000..1000             *)
(*   raw altitudes                    metres                               *)
(*   sea level, stored elevations     tenths of a metre                    *)
(*   temperatures                     tenths of a degree (after np.round)  *)
(*   desert_map (np.random.rand)      hundredths, 0..99                    *)
(*   sea_percentage                   tenths, 0..10                        *)
(* numpy arrays are records [shape |-> <<rows, cols>>, val |-> function    *)
(* over Cells(shape)], indexed from 0 as in the source.                    *)
(*                                                                         *)
(* pnoise2 (the noise package) is a pure function whose values the source  *)
(* does not fix: a call of it yields any value of ElevNoise (elevation     *)
(* field) or WaterNoise (lake and river fields).  random and np.random     *)
(* yield any value of their range, here a few of each.  Where two runs are *)
(* compared (SpecSeeded) the samples and the draws of the first run are    *)
(* kept, and the second run gets the same ones for the same arguments.     *)
(***************************************************************************)
EXTENDS Integers, Sequences, FiniteSets, TLC

VARIABLES
    pc,                  \* position of the driver (main.py, lines 95-103)
    WIDTH, HEIGHT,       \* module constants of terrain.py, line 10
    sea_percentage,      \* argument of generate_height_map, tenths
    error,               \* exception that ended the run, or "none"
    height_map,          \* ElevationGrid, tenths of a metre
    sea_level,           \* [nan, val]: calibrated sea level, tenths
    temperature_maps,    \* season -> grid
    water_presence_map,  \* grid
    lake_shape,          \* shape of lake_map  (local of line 77)
    river_shape,         \* shape of river_map (local of line 78)
    desert_map,          \* local of line 94
    valley_draws,        \* values np.random.randint(15, 26) returned, line 98
    desert_draws,        \* values np.random.randint(5, 16) returned, line 99
    light_maps,          \* season -> grid
    info,                \* what the last get_terrain_info returned
    file,                \* records written by save_detailed_map
    run1, run2           \* two seeded runs of generate_comprehensive_map

vars == <<pc, WIDTH, HEIGHT, sea_percentage, error, height_map, sea_level,
          temperature_maps, water_presence_map, lake_shape, river_shape,
          desert_map, valley_draws, desert_draws, light_maps, info, file,
          run1, run2>>

(***************************************************************************)
(* Bounds of the model and the finite sets inputs are drawn from.          *)
(***************************************************************************)
\* largest number of cells of a generated grid
MaxCells == 4
\* point queries use coordinates in -MaxCoord..MaxCoord
MaxCoord == 3

\* shapes (width, height) with at most MaxCells cells, empty ones included
Dimensions ==
    {d \in (0..MaxCells) \X (0..MaxCells) : d[1] * d[2] <= MaxCells}

\* values pnoise2 may return for the elevation field (raw altitudes 500 m,
\* 503 m, 620 m and 3500 m)
ElevNoise == {-500, -499, -460, 500}
\* values pnoise2 may return for the lake and river fields: below both
\* thresholds, above both
WaterNoise == {100, 300}
\* values of np.random.rand: <= 0.72, in (0.72, 0.9], > 0.9
DesertLevels == {50, 80, 95}
\* values np.random.randint(15, 26) and np.random.randint(5, 16) may return
ValleyValues == {15, 25}
DesertValues == {5, 15}

Seasons == {"winter", "spring", "summer", "fall"}

(***************************************************************************)
(* numpy arrays.                                                           *)
(***************************************************************************)
Cells(shape) == (0..(shape[1] - 1)) \X (0..(shape[2] - 1))

Size(shape) == shape[1] * shape[2]

\* np.zeros(shape), np.full(shape, v)
Full(shape, v) == [shape |-> shape, val |-> [c \in Cells(shape) |-> v]]

Grid(shape, f) == [shape |-> shape, val |-> f]

NoGrid == Full(<<0, 0>>, 0)

Grids(shape, values) ==
    {Grid(shape, f) : f \in [Cells(shape) -> values]}

\* shape of a binary elementwise operation, or <<>> when numpy cannot
\* broadcast the operands (ValueError)
BroadcastDim(a, b) == IF a = b THEN a ELSE IF a = 1 THEN b ELSE IF b = 1 THEN a ELSE -1

Broadcast(s, t) ==
    LET r == BroadcastDim(s[1], t[1])
        c == BroadcastDim(s[2], t[2])
    IN  IF r = -1 \/ c = -1 THEN <<>> ELSE <<r, c>>

\* arr[mask] = v needs a mask of arr's own shape (IndexError otherwise)
MaskError(arrShape, s, t) ==
    IF Broadcast(s, t) = <<>> THEN "ValueError"
    ELSE IF Broadcast(s, t) # arrShape THEN "IndexError"
    ELSE "none"

(***************************************************************************)
(* Program constants (terrain.py).                                         *)
(***************************************************************************)
\* generate_height_map defaults: min_alt, max_alt (metres), sea_percentage
\* (0.4, in tenths)
min_alt == -1000
max_alt == 5000
default_sea_percentage == 4
\* NORTH_TEMPERATURE, SOUTH_TEMPERATURE (degrees)
NORTH_TEMPERATURE == -10
SOUTH_TEMPERATURE == 30
\* river_threshold = 0.15 and lake_threshold = 0.25, in thousandths
river_threshold == 150
lake_threshold == 250
\* valley_threshold = 0.9, in hundredths
valley_threshold == 90
\* the altitude bands of lines 82, 83 and 99: 50 m, 100 m, 2300 m, in tenths
shore_band == 500
swamp_band == 1000
desert_altitude == 23000

\* season -> temp_shift (line 51), season -> light_hours (line 107)
temp_shift == [winter |-> -15, spring |-> 0, summer |-> 15, fall |-> 0]
light_hours == [winter |-> 8, spring |-> 12, summer |-> 16, fall |-> 12]

(***************************************************************************)
(* generate_height_map (lines 23-44).                                      *)
(***************************************************************************)
\* line 36, for a noise sample of altitude/1000
scaled_altitude(altitude) ==
    min_alt + ((max_alt - min_alt) * (altitude + 1000)) \div 2000

\* the k-th smallest value (k from 0) of the array a
KthSmallest(a, k) ==
    CHOOSE v \in {a.val[c] : c \in Cells(a.shape)} :
        /\ Cardinality({c \in Cells(a.shape) : a.val[c] < v}) <= k
        /\ k < Cardinality({c \in Cells(a.shape) : a.val[c] <= v})

\* percentile with method = "higher": the upper order statistic instead of
\* the interpolated value
percentile_higher(a, q) ==
    LET n    == Size(a.shape)
        num  == q * (n - 1)
        lo   == num \div 100
        rem  == num % 100
        hi   == IF lo + 1 <= n - 1 THEN lo + 1 ELSE n - 1
    IN  10 * KthSmallest(a, IF rem = 0 THEN lo ELSE hi)

\* np.percentile(a, q) of a non-empty array, q in percent, default method
\* (linear interpolation between order statistics); the result is in tenths
\* of a's unit
percentile(a, q) ==
    LET n    == Size(a.shape)
        num  == q * (n - 1)
        lo   == num \div 100
        rem  == num % 100
        hi   == IF lo + 1 <= n - 1 THEN lo + 1 ELSE n - 1
        slo  == KthSmallest(a, lo)
        shi  == KthSmallest(a, hi)
    IN  10 * slo + (rem * (shi - slo)) \div 10

\* what np.percentile does with an empty array depends on the numpy release:
\* it returns nan (with a RuntimeWarning) or raises IndexError
EmptyPercentile == {"nan", "IndexError"}

NaN == [nan |-> TRUE, val |-> 0]
Num(v) == [nan |-> FALSE, val |-> v]

\* noise: the pnoise2 samples of lines 31-37, an array of shape
\* (height, width); empty: the outcome of np.percentile on an empty array
generate_height_map(width, height, noise, sea_pct, empty) ==
    LET shape == <<height, width>>
        raw   == Grid(shape, [c \in Cells(shape) |-> scaled_altitude(noise.val[c])])
    IN  IF Size(shape) = 0
        THEN IF empty = "IndexError"
             THEN [error |-> "IndexError", height_map |-> NoGrid, sea_level |-> NaN]
             ELSE [error |-> "none", height_map |-> Full(shape, 0), sea_level |-> NaN]
        ELSE LET sea == percentile(raw, sea_pct * 10)
             IN  [error      |-> "none",
                  height_map |-> Grid(shape, [c \in Cells(shape) |-> 10 * raw.val[c] - sea]),
                  sea_level  |-> Num(sea)]

(***************************************************************************)
(* generate_temperature_map (lines 47-57).                                 *)
(***************************************************************************)
\* n/d rounded to the nearest integer, ties to the even one (np.round)
RoundHalfEven(n, d) ==
    LET q == n \div d
        r == n % d
    IN  IF 2 * r < d THEN q
        ELSE IF 2 * r > d THEN q + 1
        ELSE IF q % 2 = 0 THEN q ELSE q + 1

\* cell_temperature with the altitude term added instead of subtracted
cell_temperature_added(rows, row, shift, elevation) ==
    LET div == IF rows > 1 THEN rows - 1 ELSE 1
        den == 2000 * div
        lat == NORTH_TEMPERATURE * den
                 + row * (SOUTH_TEMPERATURE - NORTH_TEMPERATURE) * 2000
        num == lat + shift * den + elevation * div
    IN  RoundHalfEven(10 * num, den)

\* line 52 then line 54 for one cell: lat_range[row] + temp_shift
\* - 0.005 * elevation, rounded to one decimal; rows = height_map.shape[0],
\* elevation in tenths of a metre, the result in tenths of a degree.
\* np.linspace(N, S, rows)[row] = N + row * (S - N) / (rows - 1)
cell_temperature(rows, row, shift, elevation) ==
    LET div == IF rows > 1 THEN rows - 1 ELSE 1
        den == 2000 * div
        lat == NORTH_TEMPERATURE * den
                 + row * (SOUTH_TEMPERATURE - NORTH_TEMPERATURE) * 2000
        num == lat + shift * den - elevation * div
    IN  RoundHalfEven(10 * num, den)

generate_temperature_map(hm) ==
    [season \in Seasons |->
        Grid(hm.shape,
             [c \in Cells(hm.shape) |->
                 cell_temperature(hm.shape[1], c[1], temp_shift[season], hm.val[c])])]

(***************************************************************************)
(* generate_light_map (lines 104-111).                                     *)
(***************************************************************************)
generate_light_map(W, H) ==
    [season \in Seasons |-> Full(<<H, W>>, light_hours[season])]

(***************************************************************************)
(* generate_water_presence_map (lines 72-101).                             *)
(***************************************************************************)
\* arr[mask] = v
Assign(arr, mask, v) ==
    Grid(arr.shape, [c \in Cells(arr.shape) |-> IF c \in mask THEN v ELSE arr.val[c]])

\* line 74 unpacks height_map.shape = (rows, cols) as "width, height"; lines
\* 62 and 94 then build arrays of shape (height, width) = (cols, rows)
water_shape(hm) == <<hm.shape[2], hm.shape[1]>>

\* the masks of lines 81-83, 87, 91, 98 and 99, as sets of cells
sea_mask(hm, sl) == {c \in Cells(hm.shape) : hm.val[c] <= sl}

shore_mask(hm, sl) ==
    {c \in Cells(hm.shape) : hm.val[c] > sl /\ hm.val[c] <= sl + shore_band}

swamp_mask(hm, sl) ==
    {c \in Cells(hm.shape) : hm.val[c] > sl + shore_band /\ hm.val[c] <= sl + swamp_band}

river_mask(hm, river_map, sl) ==
    {c \in Cells(hm.shape) : /\ river_map.val[c] > river_threshold
                             /\ hm.val[c] > sl
                             /\ hm.val[c] <= sl + swamp_band}

lake_mask(hm, lake_map, sl) ==
    {c \in Cells(hm.shape) : /\ lake_map.val[c] > lake_threshold
                             /\ hm.val[c] > sl
                             /\ hm.val[c] <= sl + swamp_band}

\* valley_mask without its altitude condition
valley_mask_any_altitude(hm, dm, sl) ==
    {c \in Cells(hm.shape) : dm.val[c] <= valley_threshold}

valley_mask(hm, dm, sl) ==
    {c \in Cells(hm.shape) : hm.val[c] > sl /\ dm.val[c] <= valley_threshold}

arid_mask(hm, dm, sl) ==
    {c \in Cells(hm.shape) : /\ hm.val[c] > sl + desert_altitude
                             /\ dm.val[c] > (valley_threshold * 8) \div 10}

\* lines 75-91: rules 1 to 5.  lake_map and river_map are the arrays
\* generate_water_features returned, of shape water_shape(hm)
water_altitude_rules(hm, lake_map, river_map, sl) ==
    LET w0  == Full(hm.shape, 0)
        w1  == Assign(w0, sea_mask(hm, sl), 100)
        w2  == Assign(w1, shore_mask(hm, sl), 80)
        w3  == Assign(w2, swamp_mask(hm, sl), 95)
        err == MaskError(hm.shape, river_map.shape, hm.shape)
    IN  IF err # "none"
        THEN [error |-> err, water_presence_map |-> NoGrid]
        ELSE [error |-> "none",
              water_presence_map |->
                  Assign(Assign(w3, river_mask(hm, river_map, sl), 80),
                         lake_mask(hm, lake_map, sl), 100)]

\* water_overlay_rules with lines 98 and 99 exchanged
water_overlay_rules_swapped(wp, hm, dm, valley, arid, sl) ==
    LET err == MaskError(hm.shape, hm.shape, dm.shape)
    IN  IF err # "none"
        THEN [error |-> err, water_presence_map |-> NoGrid]
        ELSE [error |-> "none",
              water_presence_map |->
                  Assign(Assign(wp, arid_mask(hm, dm, sl), arid),
                         valley_mask(hm, dm, sl), valley)]

\* lines 94-99: rules 6 and 7.  dm is the array np.random.rand returned,
\* valley and arid the two scalars np.random.randint returned
water_overlay_rules(wp, hm, dm, valley, arid, sl) ==
    LET err == MaskError(hm.shape, hm.shape, dm.shape)
    IN  IF err # "none"
        THEN [error |-> err, water_presence_map |-> NoGrid]
        ELSE [error |-> "none",
              water_presence_map |->
                  Assign(Assign(wp, valley_mask(hm, dm, sl), valley),
                         arid_mask(hm, dm, sl), arid)]

(***************************************************************************)
(* get_terrain_info (lines 131-139) and save_detailed_map (141-150).       *)
(***************************************************************************)
\* numpy's a[i] on an axis of length n: -n <= i < n, negative i counts from
\* the end; -1 stands for IndexError
Index(n, i) ==
    IF 0 <= i /\ i < n THEN i
    ELSE IF -n <= i /\ i < 0 THEN i + n
    ELSE -1

InBounds(a, y, x) == Index(a.shape[1], y) # -1 /\ Index(a.shape[2], x) # -1

At(a, y, x) == a.val[<<Index(a.shape[1], y), Index(a.shape[2], x)>>]

NoInfo ==
    [called |-> FALSE, error |-> "none", x |-> 0, y |-> 0, Height |-> 0, Water |-> 0,
     Light |-> [s \in Seasons |-> 0], Temperature |-> [s \in Seasons |-> 0]]

get_terrain_info(hm, wp, light, temp, x, y) ==
    IF /\ InBounds(hm, y, x)
       /\ InBounds(wp, y, x)
       /\ \A s \in Seasons : InBounds(light[s], y, x) /\ InBounds(temp[s], y, x)
    THEN [called |-> TRUE, error |-> "none", x |-> x, y |-> y,
          Height |-> At(hm, y, x),
          Water |-> At(wp, y, x),
          Light |-> [s \in Seasons |-> At(light[s], y, x)],
          Temperature |-> [s \in Seasons |-> At(temp[s], y, x)]]
    ELSE [NoInfo EXCEPT !.called = TRUE, !.error = "IndexError", !.x = x, !.y = y]

\* the line written for cell (i, j), lines 146-150
cell_record(hm, wp, light, temp, i, j) ==
    [i |-> i, j |-> j,
     Height |-> hm.val[<<i, j>>],
     Water |-> wp.val[<<i, j>>],
     Temp |-> [s \in Seasons |-> temp[s].val[<<i, j>>]],
     Light |-> [s \in Seasons |-> light[s].val[<<i, j>>]]]

\* save_detailed_map with the two loops exchanged: j outside, i inside
save_detailed_map_by_column(hm, wp, light, temp) ==
    LET rows == hm.shape[1]
        cols == hm.shape[2]
    IN  [k \in 1..(rows * cols) |->
            cell_record(hm, wp, light, temp, (k - 1) % rows, (k - 1) \div rows)]

\* the loops of lines 144-145: i over the rows, j over the columns
save_detailed_map(hm, wp, light, temp) ==
    LET rows == hm.shape[1]
        cols == hm.shape[2]
    IN  [k \in 1..(rows * cols) |->
            cell_record(hm, wp, light, temp, (k - 1) \div cols, (k - 1) % cols)]

(***************************************************************************)
(* The driver: generate_comprehensive_map (lines 113-127) called by        *)
(* main.py, then get_terrain_info and save_detailed_map on its result.     *)
(* pc is the position in generate_comprehensive_map, then in main.py (one  *)
(* query, then the export); the locals of a call that has returned are     *)
(* reset.                                                                  *)
(***************************************************************************)
\* sea_level default of generate_water_presence_map (line 72), which line
\* 119 does not override
default_sea_level == 0

NoMaps == [s \in Seasons |-> NoGrid]

Init ==
    /\ pc = "start"
    /\ \E d \in Dimensions : WIDTH = d[1] /\ HEIGHT = d[2]
    /\ sea_percentage = default_sea_percentage
    /\ error = "none"
    /\ height_map = NoGrid
    /\ sea_level = NaN
    /\ temperature_maps = NoMaps
    /\ water_presence_map = NoGrid
    /\ lake_shape = <<0, 0>>
    /\ river_shape = <<0, 0>>
    /\ desert_map = NoGrid
    /\ valley_draws = <<>>
    /\ desert_draws = <<>>
    /\ light_maps = NoMaps
    /\ info = NoInfo
    /\ file = <<>>
    /\ run1 = <<>>
    /\ run2 = <<>>

\* an exception leaves generate_comprehensive_map: nothing is returned
Raise(e) ==
    /\ pc' = "raised"
    /\ error' = e
    /\ height_map' = NoGrid
    /\ sea_level' = NaN
    /\ temperature_maps' = NoMaps
    /\ water_presence_map' = NoGrid
    /\ lake_shape' = <<0, 0>>
    /\ river_shape' = <<0, 0>>
    /\ desert_map' = NoGrid
    /\ valley_draws' = <<>>
    /\ desert_draws' = <<>>
    /\ light_maps' = NoMaps

\* the call of generate_height_map with sea_percentage = p, the noise
\* samples among levels
HeightMapCall(p, levels) ==
    /\ pc = "start"
    /\ sea_percentage' = p
    /\ \E noise \in Grids(<<HEIGHT, WIDTH>>, levels) :
       \E empty \in IF WIDTH * HEIGHT = 0 THEN EmptyPercentile ELSE {"nan"} :
          LET r == generate_height_map(WIDTH, HEIGHT, noise, p, empty)
          IN  IF r.error # "none"
              THEN Raise(r.error)
              ELSE /\ pc' = "height_map"
                   /\ height_map' = r.height_map
                   /\ sea_level' = r.sea_level
                   /\ UNCHANGED <<error, temperature_maps, water_presence_map,
                                  lake_shape, river_shape, desert_map,
                                  valley_draws, desert_draws, light_maps>>
    /\ UNCHANGED <<WIDTH, HEIGHT, info, file, run1, run2>>

\* line 116
GenerateHeightMap == HeightMapCall(default_sea_percentage, ElevNoise)

\* line 118
GenerateTemperatureMap ==
    /\ pc = "height_map"
    /\ pc' = "temperature"
    /\ temperature_maps' = generate_temperature_map(height_map)
    /\ UNCHANGED <<WIDTH, HEIGHT, sea_percentage, error, height_map, sea_level,
                   water_presence_map, lake_shape, river_shape, desert_map,
                   valley_draws, desert_draws, light_maps, info, file, run1, run2>>

\* line 119, lines 74-91 of generate_water_presence_map
WaterAltitudeRules ==
    /\ pc = "temperature"
    /\ \E lake_map \in Grids(water_shape(height_map), WaterNoise) :
       \E river_map \in Grids(water_shape(height_map), WaterNoise) :
          LET r == water_altitude_rules(height_map, lake_map, river_map,
                                        default_sea_level)
          IN  IF r.error # "none"
              THEN Raise(r.error)
              ELSE /\ pc' = "altitude_rules"
                   /\ water_presence_map' = r.water_presence_map
                   /\ lake_shape' = lake_map.shape
                   /\ river_shape' = river_map.shape
                   /\ UNCHANGED <<error, height_map, sea_level, temperature_maps,
                                  desert_map, valley_draws, desert_draws, light_maps>>
    /\ UNCHANGED <<WIDTH, HEIGHT, sea_percentage, info, file, run1, run2>>

\* lines 94-99 of generate_water_presence_map, up to its return statement
WaterOverlayRules ==
    /\ pc = "altitude_rules"
    /\ \E dm \in Grids(water_shape(height_map), DesertLevels) :
       \E valley \in ValleyValues :
       \E arid \in DesertValues :
          LET r == water_overlay_rules(water_presence_map, height_map, dm,
                                       valley, arid, default_sea_level)
          IN  IF r.error # "none"
              THEN Raise(r.error)
              ELSE /\ pc' = "water_presence"
                   /\ water_presence_map' = r.water_presence_map
                   /\ desert_map' = dm
                   /\ valley_draws' = <<valley>>
                   /\ desert_draws' = <<arid>>
                   /\ UNCHANGED <<error, height_map, sea_level, temperature_maps,
                                  lake_shape, river_shape, light_maps>>
    /\ UNCHANGED <<WIDTH, HEIGHT, sea_percentage, info, file, run1, run2>>

\* lines 120-127: generate_light_map, then the map is returned; the locals of
\* generate_water_presence_map are gone
GenerateLightMap ==
    /\ pc = "water_presence"
    /\ pc' = "done"
    /\ light_maps' = generate_light_map(WIDTH, HEIGHT)
    /\ desert_map' = NoGrid
    /\ valley_draws' = <<>>
    /\ desert_draws' = <<>>
    /\ UNCHANGED <<WIDTH, HEIGHT, sea_percentage, error, height_map, sea_level,
                   temperature_maps, water_presence_map, lake_shape, river_shape,
                   info, file, run1, run2>>

\* main.py line 99, for any coordinates
GetTerrainInfo ==
    /\ pc = "done"
    /\ pc' = "queried"
    /\ \E x \in -MaxCoord..MaxCoord :
       \E y \in -MaxCoord..MaxCoord :
          info' = get_terrain_info(height_map, water_presence_map, light_maps,
                                   temperature_maps, x, y)
    /\ UNCHANGED <<WIDTH, HEIGHT, sea_percentage, error, height_map, sea_level,
                   temperature_maps, water_presence_map, lake_shape, river_shape,
                   desert_map, valley_draws, desert_draws, light_maps, file,
                   run1, run2>>

\* main.py line 103
SaveDetailedMap ==
    /\ pc = "queried"
    /\ file' = save_detailed_map(height_map, water_presence_map, light_maps,
                                 temperature_maps)
    /\ pc' = "saved"
    /\ UNCHANGED <<WIDTH, HEIGHT, sea_percentage, error, height_map, sea_level,
                   temperature_maps, water_presence_map, lake_shape, river_shape,
                   desert_map, valley_draws, desert_draws, light_maps, info,
                   run1, run2>>

Next ==
    \/ GenerateHeightMap
    \/ GenerateTemperatureMap
    \/ WaterAltitudeRules
    \/ WaterOverlayRules
    \/ GenerateLightMap
    \/ GetTerrainInfo
    \/ SaveDetailedMap

Spec == Init /\ [][Next]_vars

(***************************************************************************)
(* The layer functions called on their own: generate_height_map with any   *)
(* sea_percentage, then generate_temperature_map on what it returned.      *)
(***************************************************************************)
SeaPercentages == 0..10

\* one more level than ElevNoise (raw altitude 560 m)
LayerElevNoise == ElevNoise \cup {-480}

GenerateHeightMapWith ==
    \E p \in SeaPercentages : HeightMapCall(p, LayerElevNoise)

NextLayers ==
    \/ GenerateHeightMapWith
    \/ GenerateTemperatureMap

SpecLayers == Init /\ [][NextLayers]_vars

(***************************************************************************)
(* Two runs of generate_comprehensive_map from the same seed of random and *)
(* np.random, with the same WIDTH and HEIGHT.  What the seed decides       *)
(* (base_x and base_y of line 28-29, hence the arguments and the values of *)
(* pnoise2 in line 34; desert_map and the two randint values) is drawn in  *)
(* the first run and is the same in the second.  The offsets of            *)
(* generate_water_features are int(time.time()) % 1000 (lines 63-64), read *)
(* four times in a run: base_x and base_y of the lake map, then of the     *)
(* river map.  pnoise2 is a pure function: at the same offsets it returns  *)
(* the same samples.                                                       *)
(***************************************************************************)
\* the clock seconds (mod 1000) a run may read: 0..MaxClock
MaxClock == 1

\* the four readings of one run: the clock does not go back, and a run is
\* shorter than a second, so at most one reading sees the next second
ClockReadings ==
    {r \in [1..4 -> 0..MaxClock] :
        /\ \A k \in 1..3 : r[k] <= r[k + 1]
        /\ r[4] <= r[1] + 1}

\* inputs of the seeded runs: two elevation levels, two levels of
\* desert_map, and lake and river windows of the noise field that lie wholly
\* below or above the thresholds
SeededElevNoise == {-500, -460}
SeededDesertLevels == {50, 95}
SeededWaterMaps(shape) == {Full(shape, v) : v \in WaterNoise}

NoResult ==
    [error |-> "none", height |-> NoGrid, temperature |-> NoMaps,
     water_presence |-> NoGrid, light |-> NoMaps]

\* lines 113-127, as a function of everything the run reads
generate_comprehensive_map(W, H, elev_noise, lake_map, river_map, dm, valley, arid) ==
    LET h == generate_height_map(W, H, elev_noise, default_sea_percentage, "nan")
        a == water_altitude_rules(h.height_map, lake_map, river_map, default_sea_level)
        o == water_overlay_rules(a.water_presence_map, h.height_map, dm, valley,
                                 arid, default_sea_level)
    IN  IF h.error # "none" THEN [NoResult EXCEPT !.error = h.error]
        ELSE IF a.error # "none" THEN [NoResult EXCEPT !.error = a.error]
        ELSE IF o.error # "none" THEN [NoResult EXCEPT !.error = o.error]
        ELSE [error          |-> "none",
              height         |-> h.height_map,
              temperature    |-> generate_temperature_map(h.height_map),
              water_presence |-> o.water_presence_map,
              light          |-> generate_light_map(W, H)]

InitSeeded == Init /\ WIDTH = HEIGHT /\ WIDTH >= 1

SeededRun1 ==
    /\ run1 = <<>>
    /\ \E t \in ClockReadings :
       \E elev \in Grids(<<HEIGHT, WIDTH>>, SeededElevNoise) :
       \E dm \in Grids(<<WIDTH, HEIGHT>>, SeededDesertLevels) :
       \E valley \in ValleyValues :
       \E arid \in DesertValues :
       \E lake_map \in SeededWaterMaps(<<WIDTH, HEIGHT>>) :
       \E river_map \in SeededWaterMaps(<<WIDTH, HEIGHT>>) :
          run1' = <<[clock      |-> t,
                     elev_noise |-> elev,
                     desert_map |-> dm,
                     valley     |-> valley,
                     arid       |-> arid,
                     lake_map   |-> lake_map,
                     river_map  |-> river_map,
                     result     |-> generate_comprehensive_map(
                                        WIDTH, HEIGHT, elev, lake_map, river_map,
                                        dm, valley, arid)]>>
    /\ UNCHANGED <<pc, WIDTH, HEIGHT, sea_percentage, error, height_map, sea_level,
                   temperature_maps, water_presence_map, lake_shape, river_shape,
                   desert_map, valley_draws, desert_draws, light_maps, info, file,
                   run2>>

SeededRun2 ==
    /\ run1 # <<>>
    /\ run2 = <<>>
    /\ \E t \in ClockReadings :
       \E lake_map \in SeededWaterMaps(<<WIDTH, HEIGHT>>) :
       \E river_map \in SeededWaterMaps(<<WIDTH, HEIGHT>>) :
          /\ (t[1] = run1[1].clock[1] /\ t[2] = run1[1].clock[2]) =>
                 lake_map = run1[1].lake_map
          /\ (t[3] = run1[1].clock[3] /\ t[4] = run1[1].clock[4]) =>
                 river_map = run1[1].river_map
          /\ run2' = <<[clock  |-> t,
                        result |-> generate_comprehensive_map(
                                       WIDTH, HEIGHT, run1[1].elev_noise, lake_map,
                                       river_map, run1[1].desert_map,
                                       run1[1].valley, run1[1].arid)]>>
    /\ UNCHANGED <<pc, WIDTH, HEIGHT, sea_percentage, error, height_map, sea_level,
                   temperature_maps, water_presence_map, lake_shape, river_shape,
                   desert_map, valley_draws, desert_draws, light_maps, info, file,
                   run1>>

NextSeeded ==
    \/ SeededRun1
    \/ SeededRun2

SpecSeeded == InitSeeded /\ [][NextSeeded]_vars

(***************************************************************************)
(* Properties.                                                             *)
(***************************************************************************)
Returned == pc \in {"done", "queried", "saved"}

AllCells == Cells(height_map.shape)

\* C1: get_terrain_info fails whenever x is outside [0, WIDTH) or y is
\* outside [0, HEIGHT), negative coordinates included, and returns a cell's
\* values only for 0 <= x < WIDTH and 0 <= y < HEIGHT.
C1_OutOfBoundsFails ==
    info.called =>
        (info.error = "none" <=>
            (0 <= info.x /\ info.x < WIDTH /\ 0 <= info.y /\ info.y < HEIGHT))

\* C2: for every WIDTH >= 1 and HEIGHT >= 1 generation succeeds, and every
\* layer (elevation, temperatures, lights, lake and river noise maps, desert
\* map, water presence) has HEIGHT rows and WIDTH columns.
C2_AllLayersShareDimensions ==
    (WIDTH >= 1 /\ HEIGHT >= 1) =>
        /\ pc # "raised"
        /\ pc \in {"height_map", "temperature", "altitude_rules",
                   "water_presence", "done", "queried", "saved"} =>
               height_map.shape = <<HEIGHT, WIDTH>>
        /\ pc \in {"temperature", "altitude_rules", "water_presence", "done",
                   "queried", "saved"} =>
               \A s \in Seasons : temperature_maps[s].shape = <<HEIGHT, WIDTH>>
        /\ pc \in {"altitude_rules", "water_presence", "done", "queried", "saved"} =>
               /\ water_presence_map.shape = <<HEIGHT, WIDTH>>
               /\ lake_shape = <<HEIGHT, WIDTH>>
               /\ river_shape = <<HEIGHT, WIDTH>>
        /\ pc = "water_presence" => desert_map.shape = <<HEIGHT, WIDTH>>
        /\ Returned => \A s \in Seasons : light_maps[s].shape = <<HEIGHT, WIDTH>>

\* C3: two runs of generate_comprehensive_map from the same seed and the
\* same configuration return identical grids in every layer.
C3_SameSeedSameMap ==
    (run1 # <<>> /\ run2 # <<>>) => run1[1].result = run2[1].result

\* C4: in the map generate_comprehensive_map returns, every cell at or below
\* the calibrated sea level (stored elevation <= 0) has water presence 100,
\* whatever the lake, river and desert maps are.
C4_SeaCellsStayFull ==
    pc \in {"water_presence", "done", "queried", "saved"} =>
        \A c \in AllCells :
            height_map.val[c] <= 0 => water_presence_map.val[c] = 100

\* a sea cell that the desert map alone would have made a valley (rule 6)
C4_Witness ==
    /\ pc = "water_presence"
    /\ \E c \in AllCells :
          /\ height_map.val[c] <= 0
          /\ desert_map.val[c] <= valley_threshold
          /\ water_presence_map.val[c] = 100
    /\ \E c \in AllCells : water_presence_map.val[c] < 100

\* the cells that match both rule 6 and rule 7
BothRules ==
    {c \in AllCells : /\ height_map.val[c] > 0
                      /\ desert_map.val[c] <= 90
                      /\ height_map.val[c] > 23000
                      /\ desert_map.val[c] > 72}

\* C5: a cell that matches the valley condition and the desert condition
\* ends with the value drawn for the desert rule, not the valley one.
C5_DesertOverValley ==
    pc = "water_presence" =>
        \A c \in BothRules : water_presence_map.val[c] = desert_draws[1]

C5_Witness ==
    /\ pc = "water_presence"
    /\ BothRules # {}
    /\ valley_draws[1] # desert_draws[1]
    /\ \A c \in BothRules : water_presence_map.val[c] = desert_draws[1]

\* the cells that match rule 6 and not rule 7
ValleyOnly ==
    {c \in AllCells : /\ height_map.val[c] > 0
                      /\ desert_map.val[c] <= 90
                      /\ ~(height_map.val[c] > 23000 /\ desert_map.val[c] > 72)}

\* C6: rule 6 draws a value in 15..25 for each qualifying cell on its own:
\* with two or more qualifying cells there is a draw per cell.
C6_OneDrawPerValleyCell ==
    (pc = "water_presence" /\ Cardinality(ValleyOnly) >= 2) =>
        Len(valley_draws) >= Cardinality(ValleyOnly)

\* what the code does instead: the cells of rule 6 all hold the one value
\* line 98 drew
ValleyCellsShareOneDraw ==
    pc = "water_presence" =>
        /\ Len(valley_draws) = 1
        /\ \A c \in ValleyOnly : water_presence_map.val[c] = valley_draws[1]

\* C7: generate_height_map with width = 0 or height = 0 fails with
\* InvalidDimensions and yields no elevation grid and no sea level.
C7_EmptyGridRejected ==
    (pc # "start" /\ (WIDTH = 0 \/ HEIGHT = 0)) =>
        pc = "raised" /\ error = "InvalidDimensions"

\* number of cells at or below the computed sea level
SeaCells == Cardinality({c \in AllCells : height_map.val[c] <= 0})

DistinctSamples ==
    \A c, d \in AllCells : c # d => height_map.val[c] # height_map.val[d]

\* |SeaCells - p * cells| <= 1, with p = sea_percentage / 10
WithinOneCell ==
    LET diff == 10 * SeaCells - sea_percentage * Size(height_map.shape)
    IN  -10 <= diff /\ diff <= 10

\* C8 as stated: for every grid of samples, repeated values included, the
\* number of samples <= sea level is within one cell of p * cells.
C8_WithinOneCellAlways ==
    (pc = "height_map" /\ Size(height_map.shape) > 0) => WithinOneCell

\* C8 amended: the same, for grids whose samples are pairwise distinct.
C8_WithinOneCellDistinct ==
    (pc = "height_map" /\ Size(height_map.shape) > 0 /\ DistinctSamples) =>
        WithinOneCell

C8_Witness ==
    /\ pc = "height_map"
    /\ Size(height_map.shape) = 4
    /\ DistinctSamples
    /\ sea_percentage = 4
    /\ SeaCells = 2

\* C9 as stated: in a row of a seasonal grid, the cell with the strictly
\* higher elevation has the strictly lower (rounded) temperature.
C9_StrictlyColder ==
    pc = "temperature" =>
        \A s \in Seasons : \A c, d \in AllCells :
            (c[1] = d[1] /\ height_map.val[c] > height_map.val[d]) =>
                temperature_maps[s].val[c] < temperature_maps[s].val[d]

\* C9 amended: the cell with the strictly higher elevation never has the
\* higher (rounded) temperature.
C9_NeverWarmer ==
    pc = "temperature" =>
        \A s \in Seasons : \A c, d \in AllCells :
            (c[1] = d[1] /\ height_map.val[c] > height_map.val[d]) =>
                temperature_maps[s].val[c] <= temperature_maps[s].val[d]

\* a row with a higher cell that is colder and a higher cell that is not
C9_Witness ==
    /\ pc = "temperature"
    /\ \E c, d \in AllCells :
          /\ c[1] = d[1]
          /\ height_map.val[c] > height_map.val[d]
          /\ temperature_maps["summer"].val[c] < temperature_maps["summer"].val[d]
    /\ \E c, d \in AllCells :
          /\ c[1] = d[1]
          /\ height_map.val[c] > height_map.val[d]
          /\ temperature_maps["summer"].val[c] = temperature_maps["summer"].val[d]

\* C10: the export emits WIDTH * HEIGHT records, one per cell and none
\* twice, the record of (i, j) before that of (i', j') exactly when i < i',
\* or i = i' and j < j'; and it leaves every grid unchanged.
C10_ExportRowMajor ==
    [][(pc = "queried" /\ pc' = "saved") =>
          /\ Len(file') = WIDTH * HEIGHT
          /\ {<<file'[k].i, file'[k].j>> : k \in 1..Len(file')} = AllCells
          /\ \A k, l \in 1..Len(file') :
                k < l <=> \/ file'[k].i < file'[l].i
                          \/ file'[k].i = file'[l].i /\ file'[k].j < file'[l].j
          /\ \A k \in 1..Len(file') :
                LET c == <<file'[k].i, file'[k].j>>
                IN  /\ file'[k].Height = height_map.val[c]
                    /\ file'[k].Water = water_presence_map.val[c]
                    /\ \A s \in Seasons :
                          /\ file'[k].Temp[s] = temperature_maps[s].val[c]
                          /\ file'[k].Light[s] = light_maps[s].val[c]
          /\ UNCHANGED <<height_map, temperature_maps, water_presence_map,
                         light_maps>>]_vars

C10_Witness ==
    /\ pc = "saved"
    /\ WIDTH = 2
    /\ HEIGHT = 2
    /\ Len(file) = 4

====
